---- MODULE Spec2Model ----
(***************************************************************************)
(* Canvas editing core of dragndrop-studio: the undo/redo history          *)
(* (useCanvasHistory), the item operations (useItemOperations), the        *)
(* container size (useCanvasSize), the keyboard shortcuts                  *)
(* (useKeyboardShortcuts), the drag-and-drop controller                    *)
(* (useCanvasDragDrop / PhotoCanvas) and the export (useExportImage).      *)
(*                                                                         *)
(* Strings that the code inspects are modelled as pairs <<prefix, n>>:     *)
(* `placed-${t}` is <<"placed-", t>>, a catalog id is <<"", n>>, null is   *)
(* <<"null", 0>> and undefined is <<"undefined", 0>>.                      *)
(***************************************************************************)
EXTENDS Integers, Sequences, FiniteSets, Bags, TLC

VARIABLES history, historyIndex, placedItems, canvasSize,
          activeId, selectedItemId, dndActive, lastEvt,
          isExporting, exportLoading, pendingBlobs

histVars == <<history, historyIndex, placedItems>>
dragVars == <<activeId, selectedItemId, dndActive>>
exportVars == <<isExporting, exportLoading, pendingBlobs>>
vars == <<history, historyIndex, placedItems, canvasSize,
          activeId, selectedItemId, dndActive, lastEvt,
          isExporting, exportLoading, pendingBlobs>>

(* ------------------------------ bounds --------------------------------- *)
\* longest snapshot list the model lets the history grow to
MaxHistory == 3
\* most exports the model lets be started and not yet finished
MaxInFlight == 2

(* ------------------------- CANVAS_CONFIG ------------------------------- *)
DEFAULT_ITEM_SIZE == 40
MIN_ITEM_SIZE == 20
MAX_ITEM_SIZE == 200
ROTATION_STEP == 15
RESIZE_STEP == 10
ITEM_OFFSET == 20

(* ----------------------------- values ---------------------------------- *)
Null == <<"null", 0>>
Undefined == <<"undefined", 0>>
\* a field read from an object that does not have it, in a numeric position
UndefinedNum == -1

PlacedId(t) == <<"placed-", t>>
StartsWithPlaced(id) == id[1] = "placed-"

\* the kind of drag the handlers take an id for
Kind(id) == IF StartsWithPlaced(id) THEN "moving-placed" ELSE "from-catalog"

\* the catalog delivered by fetchItems: {id, image}
Catalog == { [id |-> <<"", 1>>, image |-> "ring.png"] }
CatalogIds == { c.id : c \in Catalog }
\* ids of the draggables of the panel: the catalog, and an entry that the
\* catalog handleDragEnd sees (items, possibly refetched or undefined) lacks
PanelIds == CatalogIds \cup { <<"", 2>> }

\* container sizes the photo element is measured at once it has loaded
Sizes == { [width |-> 300, height |-> 200], [width |-> 400, height |-> 300] }
\* pointer positions, in container space, at which a catalog drag is released
DropPoints == { [x |-> 50, y |-> 50] }
\* deltas of a placed-item drag
Deltas == { [x |-> 250, y |-> 150] }
\* values Date.now() returns when a drop is committed
Times == { 0, 1 }
Directions == { 1, -1 }
Overs == { "canvas-droppable", "none" }

Max(a, b) == IF a >= b THEN a ELSE b
Min(a, b) == IF a <= b THEN a ELSE b

\* the JavaScript remainder: the sign of the result is the sign of a
JsRem(a, n) == IF a >= 0 THEN a % n ELSE -((-a) % n)

\* the element [] that [[initialItems]] puts into the first snapshot
EmptyArrayItem ==
  [id |-> Undefined, itemId |-> Undefined, image |-> "undefined",
   x |-> UndefinedNum, y |-> UndefinedNum, width |-> UndefinedNum,
   height |-> UndefinedNum, rotation |-> UndefinedNum]

\* the event handled last: its handler, the id it targets, two arguments and,
\* for a commit, the number of snapshots the commit discarded; for a drag end,
\* what the pointer was released over; for a step of an export, what the step
\* did (ExportEvt)
Evt(op, id, a, b) ==
  [op |-> op, id |-> id, a |-> a, b |-> b, cut |-> 0,
   over |-> "", drawn |-> FALSE, zeroSize |-> FALSE, unhandled |-> FALSE,
   surface |-> << >>, arrival |-> << >>]

Range(s) == { s[i] : i \in 1..Len(s) }
Ids(scene) == { scene[i].id : i \in 1..Len(scene) }

(* --------------------------- useCanvasHistory -------------------------- *)
\* the hook's state as one value
H == [history |-> history, historyIndex |-> historyIndex, placedItems |-> placedItems]

\* a commit that keeps the snapshots after the cursor
saveToHistory_NoTruncate(h, newItems) ==
  LET newHistory == Append(h.history, newItems)
  IN [history |-> newHistory,
      historyIndex |-> h.historyIndex + 1,
      placedItems |-> newItems]

saveToHistory(h, newItems) ==
  LET newHistory == Append(SubSeq(h.history, 1, h.historyIndex + 1), newItems)
  IN [history |-> newHistory,
      historyIndex |-> Len(newHistory) - 1,
      placedItems |-> newItems]

\* an undo that goes back to the first snapshot at once
undo_ToStart(h) ==
  IF h.historyIndex > 0
  THEN [h EXCEPT !.historyIndex = 0,
                 !.placedItems = h.history[1]]
  ELSE h

undo(h) ==
  IF h.historyIndex > 0
  THEN [h EXCEPT !.historyIndex = h.historyIndex - 1,
                 !.placedItems = h.history[(h.historyIndex - 1) + 1]]
  ELSE h

\* a redo that moves the cursor and leaves the displayed scene alone
redo_KeepScene(h) ==
  IF h.historyIndex < Len(h.history) - 1
  THEN [h EXCEPT !.historyIndex = h.historyIndex + 1]
  ELSE h

redo(h) ==
  IF h.historyIndex < Len(h.history) - 1
  THEN [h EXCEPT !.historyIndex = h.historyIndex + 1,
                 !.placedItems = h.history[(h.historyIndex + 1) + 1]]
  ELSE h

canUndo == historyIndex > 0
canRedo == historyIndex < Len(history) - 1

\* the event of a handler that calls saveToHistory
CommitEvt(op, id, a, b) ==
  [op |-> op, id |-> id, a |-> a, b |-> b,
   cut |-> Len(history) - (historyIndex + 1),
   over |-> "", drawn |-> FALSE, zeroSize |-> FALSE, unhandled |-> FALSE,
   surface |-> << >>, arrival |-> << >>]

SetH(h) ==
  /\ history' = h.history
  /\ historyIndex' = h.historyIndex
  /\ placedItems' = h.placedItems

\* a commit keeps the snapshot list within the model's bound
CanCommit == historyIndex + 2 <= MaxHistory

(* --------------------------- useItemOperations ------------------------- *)
\* a rotate that turns every item, whatever its id
handleRotate_EveryItem(items, itemId, direction) ==
  [i \in 1..Len(items) |->
     [items[i] EXCEPT !.rotation =
        JsRem(items[i].rotation + direction * ROTATION_STEP, 360)]]

handleRotate(items, itemId, direction) ==
  [i \in 1..Len(items) |->
     IF items[i].id = itemId
     THEN [items[i] EXCEPT !.rotation =
             JsRem(items[i].rotation + direction * ROTATION_STEP, 360)]
     ELSE items[i]]

handleResize(items, itemId, delta) ==
  [i \in 1..Len(items) |->
     IF items[i].id = itemId
     THEN [items[i] EXCEPT
             !.width = Max(MIN_ITEM_SIZE, Min(MAX_ITEM_SIZE, items[i].width + delta)),
             !.height = Max(MIN_ITEM_SIZE, Min(MAX_ITEM_SIZE, items[i].height + delta))]
     ELSE items[i]]

hookHandleRemoveItem(items, itemId) ==
  SelectSeq(items, LAMBDA item : item.id # itemId)

(* ---------------------------- useExportImage --------------------------- *)
\* no handleExport is waiting for the images of the placed items
NoJob == [zeroSize |-> FALSE, running |-> FALSE, items |-> << >>, loaded |-> << >>]
\* a running handleExport: whether its canvasSize has a zero dimension, the
\* placedItems of its closure, and the indexes of the images that have
\* loaded, in the order they loaded
Job(size, items) ==
  [zeroSize |-> size.width = 0 \/ size.height = 0, running |-> TRUE,
   items |-> items, loaded |-> << >>]
\* a handleExport that has drawn and waits for the callback of toBlob
Encoding(job) ==
  [zeroSize |-> job.zeroSize, running |-> TRUE, items |-> << >>, loaded |-> << >>]
\* indexes of the images of a running handleExport that have not loaded yet
NotLoaded(job) == (1..Len(job.items)) \ Range(job.loaded)

\* a Promise.all whose values are in the order the promises were fulfilled
PromiseAllValues_ArrivalOrder(items, arrival) ==
  [k \in 1..Len(items) |-> items[arrival[k]]]

\* Promise.all: the values in the order of the promises, whatever order
\* (arrival) they were fulfilled in
PromiseAllValues(items, arrival) ==
  [i \in 1..Len(items) |-> items[i]]

\* exports that have started and have neither downloaded nor failed yet
InFlight == (IF exportLoading.running THEN 1 ELSE 0) + BagCardinality(pendingBlobs)

\* what a step of an export did: alerts shown, downloads triggered, whether
\* placed items were drawn, whether the export was started on a container with
\* a zero dimension, whether a rejection was left without a handler
\* (surface: the items drawn, in drawing order; arrival: the order the images
\* loaded in)
ExportEvt(op, alerts, downloads, drawn, zeroSize, unhandled) ==
  [op |-> op, id |-> Null, a |-> alerts, b |-> downloads, cut |-> 0,
   over |-> "", drawn |-> drawn, zeroSize |-> zeroSize, unhandled |-> unhandled,
   surface |-> << >>, arrival |-> << >>]

(* ---------------------------- initial state ---------------------------- *)
Init ==
  /\ history = << << EmptyArrayItem >> >>
  /\ historyIndex = 0
  /\ placedItems = << >>
  /\ canvasSize = [width |-> 0, height |-> 0]
  /\ activeId = Null
  /\ selectedItemId = Null
  /\ dndActive = Null
  /\ lastEvt = Evt("init", Null, 0, 0)
  /\ isExporting = FALSE
  /\ exportLoading = NoJob
  /\ pendingBlobs = EmptyBag

(* ------------------------------ actions -------------------------------- *)
Undo ==
  /\ SetH(undo(H))
  /\ lastEvt' = Evt("undo", Null, IF canUndo THEN 1 ELSE 0, 0)
  /\ UNCHANGED <<canvasSize, dragVars, exportVars>>

Redo ==
  /\ SetH(redo(H))
  /\ lastEvt' = Evt("redo", Null, IF canRedo THEN 1 ELSE 0, 0)
  /\ UNCHANGED <<canvasSize, dragVars, exportVars>>

(* useCanvasSize.updateSize: the photo element is measured again *)
UpdateSize ==
  \E sz \in Sizes :
    /\ canvasSize' = sz
    /\ lastEvt' = Evt("updateSize", Null, sz.width, sz.height)
    /\ UNCHANGED <<histVars, dragVars, exportVars>>

(* toolbar and overlay buttons: rendered only for the selected item found
   in placedItems; the pointer that holds a drag presses no button *)
HasSelectedItem == selectedItemId \in Ids(placedItems)
PointerFree == dndActive = Null

RotateButton ==
  \E direction \in Directions :
    /\ PointerFree
    /\ HasSelectedItem
    /\ CanCommit
    /\ SetH(saveToHistory(H, handleRotate(placedItems, selectedItemId, direction)))
    /\ lastEvt' = CommitEvt("rotate", selectedItemId, direction, 0)
    /\ UNCHANGED <<canvasSize, dragVars, exportVars>>

ResizeButton ==
  \E delta \in { RESIZE_STEP, -RESIZE_STEP } :
    /\ PointerFree
    /\ HasSelectedItem
    /\ CanCommit
    /\ SetH(saveToHistory(H, handleResize(placedItems, selectedItemId, delta)))
    /\ lastEvt' = CommitEvt("resize", selectedItemId, delta, 0)
    /\ UNCHANGED <<canvasSize, dragVars, exportVars>>

(* PhotoCanvas.handleRemoveItem: the hook's remove, then deselect *)
handleRemoveItem(itemId, op) ==
  /\ CanCommit
  /\ SetH(saveToHistory(H, hookHandleRemoveItem(placedItems, itemId)))
  /\ selectedItemId' = Null
  /\ lastEvt' = CommitEvt(op, itemId, 0, 0)
  /\ UNCHANGED <<canvasSize, activeId, dndActive, exportVars>>

RemoveButton ==
  /\ PointerFree
  /\ HasSelectedItem
  /\ handleRemoveItem(selectedItemId, "removeButton")

(* useKeyboardShortcuts: Delete or Backspace with a truthy selectedItemId *)
DeleteKey ==
  /\ selectedItemId # Null
  /\ handleRemoveItem(selectedItemId, "removeKey")

\* a deselect that is ignored while a drag is under way
Deselect_OnlyWhenIdle ==
  /\ selectedItemId' = IF PointerFree THEN Null ELSE selectedItemId
  /\ lastEvt' = Evt("deselect", Null, 0, 0)
  /\ UNCHANGED <<histVars, canvasSize, activeId, dndActive, exportVars>>

(* Escape key, or a click on the canvas background *)
Deselect ==
  /\ selectedItemId' = Null
  /\ lastEvt' = Evt("deselect", Null, 0, 0)
  /\ UNCHANGED <<histVars, canvasSize, activeId, dndActive, exportVars>>

(* a click on a rendered placed item *)
SelectItem ==
  \E id \in Ids(placedItems) \ {Undefined} :
    /\ PointerFree
    /\ selectedItemId' = id
    /\ lastEvt' = Evt("select", id, 0, 0)
    /\ UNCHANGED <<histVars, canvasSize, activeId, dndActive, exportVars>>

(* --------------------------- useCanvasDragDrop ------------------------- *)
handleDragStart ==
  \E id \in PanelIds \cup (Ids(placedItems) \ {Undefined}) :
    /\ dndActive = Null
    /\ dndActive' = id
    /\ activeId' = id
    /\ selectedItemId' = IF StartsWithPlaced(id) THEN id ELSE selectedItemId
    /\ lastEvt' = Evt("dragStart", id, 0, 0)
    /\ UNCHANGED <<histVars, canvasSize, exportVars>>

\* the catalog entry with the dragged id, as items?.find returns it
FindSource(id) == { c \in Catalog : c.id = id }

\* top-left corner of the dropped item for a pointer released at p
RelativeTopLeft(p) == [x |-> p.x - ITEM_OFFSET, y |-> p.y - ITEM_OFFSET]

\* a clamp that forgets the lower edge
ClampInto_NoFloor(v, limit, size) == Min(v, limit - size)

ClampInto(v, limit, size) == Max(0, Min(v, limit - size))

\* a new item whose corner, not its centre, is put on the pointer
newItem_NoCentre(sourceItem, p, size, t) ==
  [id |-> PlacedId(t),
   itemId |-> sourceItem.id,
   image |-> sourceItem.image,
   x |-> ClampInto(p.x, size.width, DEFAULT_ITEM_SIZE),
   y |-> ClampInto(p.y, size.height, DEFAULT_ITEM_SIZE),
   width |-> DEFAULT_ITEM_SIZE,
   height |-> DEFAULT_ITEM_SIZE,
   rotation |-> 0]

newItem(sourceItem, p, size, t) ==
  [id |-> PlacedId(t),
   itemId |-> sourceItem.id,
   image |-> sourceItem.image,
   x |-> ClampInto(RelativeTopLeft(p).x, size.width, DEFAULT_ITEM_SIZE),
   y |-> ClampInto(RelativeTopLeft(p).y, size.height, DEFAULT_ITEM_SIZE),
   width |-> DEFAULT_ITEM_SIZE,
   height |-> DEFAULT_ITEM_SIZE,
   rotation |-> 0]

moveItems(items, id, delta, size) ==
  [i \in 1..Len(items) |->
     IF items[i].id = id
     THEN [items[i] EXCEPT
             !.x = ClampInto(items[i].x + delta.x, size.width, items[i].width),
             !.y = ClampInto(items[i].y + delta.y, size.height, items[i].height)]
     ELSE items[i]]

\* a drop that adds the item and leaves the selection as it was
DragEndAdd_KeepsSelection(over, p, rectOk, t) ==
  /\ over = "canvas-droppable"
  /\ ~StartsWithPlaced(dndActive)
  /\ FindSource(dndActive) # {}
  /\ rectOk
  /\ CanCommit
  /\ LET sourceItem == CHOOSE c \in FindSource(dndActive) : TRUE
         item == newItem(sourceItem, p, canvasSize, t)
     IN /\ SetH(saveToHistory(H, Append(placedItems, item)))
        /\ UNCHANGED selectedItemId
        /\ lastEvt' = [CommitEvt("add", item.id, p.x, p.y) EXCEPT !.over = over]

\* from-catalog branch: over the canvas, id not starting with 'placed-'
DragEndAdd(over, p, rectOk, t) ==
  /\ over = "canvas-droppable"
  /\ ~StartsWithPlaced(dndActive)
  /\ FindSource(dndActive) # {}
  /\ rectOk
  /\ CanCommit
  /\ LET sourceItem == CHOOSE c \in FindSource(dndActive) : TRUE
         item == newItem(sourceItem, p, canvasSize, t)
     IN /\ SetH(saveToHistory(H, Append(placedItems, item)))
        /\ selectedItemId' = item.id
        /\ lastEvt' = [CommitEvt("add", item.id, p.x, p.y) EXCEPT !.over = over]

\* a move that takes effect only when released over the canvas
DragEndMove_OnlyOverCanvas(over, delta) ==
  /\ StartsWithPlaced(dndActive)
  /\ activeId # Null
  /\ CanCommit
  /\ SetH(saveToHistory(H, IF over = "canvas-droppable"
                           THEN moveItems(placedItems, activeId, delta, canvasSize)
                           ELSE placedItems))
  /\ lastEvt' = [CommitEvt("move", activeId, delta.x, delta.y) EXCEPT !.over = over]
  /\ UNCHANGED selectedItemId

\* both move branches: a 'placed-' id, over the canvas or not
DragEndMove(over, delta) ==
  /\ StartsWithPlaced(dndActive)
  /\ activeId # Null
  /\ CanCommit
  /\ SetH(saveToHistory(H, moveItems(placedItems, activeId, delta, canvasSize)))
  /\ lastEvt' = [CommitEvt("move", activeId, delta.x, delta.y) EXCEPT !.over = over]
  /\ UNCHANGED selectedItemId

\* a drag end without effect on the scene that drops the selection
DragEndNone_Deselects(over, rectOk) ==
  /\ ~StartsWithPlaced(dndActive)
  /\ ~(over = "canvas-droppable" /\ FindSource(dndActive) # {} /\ rectOk)
  /\ lastEvt' = [Evt("dragEndNone", dndActive, 0, IF rectOk THEN 1 ELSE 0)
                  EXCEPT !.over = over]
  /\ selectedItemId' = Null
  /\ UNCHANGED histVars

\* every other drag end commits nothing; the event records whether the
\* canvas element and the translated rect of the overlay were there
DragEndNone(over, rectOk) ==
  /\ ~StartsWithPlaced(dndActive)
  /\ ~(over = "canvas-droppable" /\ FindSource(dndActive) # {} /\ rectOk)
  /\ lastEvt' = [Evt("dragEndNone", dndActive, 0, IF rectOk THEN 1 ELSE 0)
                  EXCEPT !.over = over]
  /\ UNCHANGED <<histVars, selectedItemId>>

handleDragEnd ==
  /\ dndActive # Null
  /\ \E over \in Overs, p \in DropPoints, delta \in Deltas,
        rectOk \in BOOLEAN, t \in Times :
       \/ DragEndAdd(over, p, rectOk, t)
       \/ DragEndMove(over, delta)
       \/ DragEndNone(over, rectOk)
  /\ activeId' = Null
  /\ dndActive' = Null
  /\ UNCHANGED <<canvasSize, exportVars>>

(* the drag is cancelled by the platform: DndContext has no onDragCancel *)
DragCancel ==
  /\ dndActive # Null
  /\ dndActive' = Null
  /\ lastEvt' = Evt("dragCancel", dndActive, 0, 0)
  /\ UNCHANGED <<histVars, canvasSize, activeId, selectedItemId, exportVars>>

(* ------------------------------- retake -------------------------------- *)
\* a retake that clears the scene and keeps the snapshots
handleRetake_KeepsHistory ==
  /\ ~isExporting
  /\ InFlight = 0
  /\ placedItems' = << >>
  /\ canvasSize' = [width |-> 0, height |-> 0]
  /\ activeId' = Null
  /\ selectedItemId' = Null
  /\ dndActive' = Null
  /\ lastEvt' = Evt("retake", Null, Len(history), 0)
  /\ UNCHANGED <<history, historyIndex, exportVars>>

(* App.handleRetake followed by a new capture: PhotoCanvas is unmounted and
   mounted again, every hook starts from its initial state; taken while no
   export of the unmounted canvas is still running. The event records how
   many snapshots the unmounted canvas held. *)
handleRetake ==
  /\ ~isExporting
  /\ InFlight = 0
  /\ history' = << << EmptyArrayItem >> >>
  /\ historyIndex' = 0
  /\ placedItems' = << >>
  /\ canvasSize' = [width |-> 0, height |-> 0]
  /\ activeId' = Null
  /\ selectedItemId' = Null
  /\ dndActive' = Null
  /\ lastEvt' = Evt("retake", Null, Len(history), 0)
  /\ UNCHANGED exportVars

(* ---------------------------- export steps ----------------------------- *)
(* a click on the export button, rendered enabled while the scene has items:
   handleExport up to its await *)
handleExport ==
  /\ PointerFree
  /\ Len(placedItems) # 0
  /\ IF isExporting
     THEN /\ lastEvt' = ExportEvt("exportIgnored", 0, 0, FALSE, FALSE, FALSE)
          /\ UNCHANGED exportVars
     ELSE \E ctx \in BOOLEAN :
            IF ctx
            THEN /\ InFlight < MaxInFlight
                 /\ isExporting' = TRUE
                 /\ exportLoading' = Job(canvasSize, placedItems)
                 /\ lastEvt' = ExportEvt("exportRequest", 0, 0, FALSE,
                                         Job(canvasSize, placedItems).zeroSize, FALSE)
                 /\ UNCHANGED pendingBlobs
            ELSE /\ lastEvt' = ExportEvt("exportNoContext", 1, 0, FALSE,
                                         Job(canvasSize, placedItems).zeroSize, FALSE)
                 /\ UNCHANGED exportVars
  /\ UNCHANGED <<histVars, canvasSize, dragVars>>

(* img.onload of one image while others are still loading *)
ImageLoaded ==
  \E i \in NotLoaded(exportLoading) :
    /\ exportLoading.running
    /\ NotLoaded(exportLoading) # {i}
    /\ exportLoading' = [exportLoading EXCEPT !.loaded = Append(@, i)]
    /\ lastEvt' = ExportEvt("imageLoaded", 0, 0, FALSE, exportLoading.zeroSize, FALSE)
    /\ UNCHANGED <<histVars, canvasSize, dragVars, isExporting, pendingBlobs>>

\* a failed image load that draws what did load and goes on to encode
ImageLoadFailed_DrawsLoaded ==
  /\ exportLoading.running
  /\ pendingBlobs' = pendingBlobs (+) SetToBag({Encoding(exportLoading)})
  /\ exportLoading' = NoJob
  /\ isExporting' = FALSE
  /\ lastEvt' = ExportEvt("imageFailed", 1, 0, TRUE, exportLoading.zeroSize, FALSE)
  /\ UNCHANGED <<histVars, canvasSize, dragVars>>

(* img.onerror of an image: Promise.all rejects; catch (one alert), finally *)
ImageLoadFailed ==
  /\ exportLoading.running
  /\ exportLoading' = NoJob
  /\ isExporting' = FALSE
  /\ lastEvt' = ExportEvt("imageFailed", 1, 0, FALSE, exportLoading.zeroSize, FALSE)
  /\ UNCHANGED <<histVars, canvasSize, dragVars, pendingBlobs>>

\* images loaded, with the selection dropped on the way
ImagesLoaded_Deselects ==
  \E i \in NotLoaded(exportLoading) :
    /\ exportLoading.running
    /\ NotLoaded(exportLoading) = {i}
    /\ pendingBlobs' = pendingBlobs (+) SetToBag({Encoding(exportLoading)})
    /\ exportLoading' = NoJob
    /\ isExporting' = FALSE
    /\ selectedItemId' = Null
    /\ lastEvt' =
         [ExportEvt("imagesLoaded", 0, 0, TRUE, exportLoading.zeroSize, FALSE)
            EXCEPT !.surface = PromiseAllValues(exportLoading.items,
                                                Append(exportLoading.loaded, i)),
                   !.arrival = Append(exportLoading.loaded, i)]
    /\ UNCHANGED <<histVars, canvasSize, activeId, dndActive>>

(* img.onload of the last image: Promise.all resolves, the values are drawn
   by forEach, toBlob is called, the promise of the download is returned
   without await, finally *)
ImagesLoaded ==
  \E i \in NotLoaded(exportLoading) :
    /\ exportLoading.running
    /\ NotLoaded(exportLoading) = {i}
    /\ pendingBlobs' = pendingBlobs (+) SetToBag({Encoding(exportLoading)})
    /\ exportLoading' = NoJob
    /\ isExporting' = FALSE
    /\ lastEvt' =
         [ExportEvt("imagesLoaded", 0, 0, TRUE, exportLoading.zeroSize, FALSE)
            EXCEPT !.surface = PromiseAllValues(exportLoading.items,
                                                Append(exportLoading.loaded, i)),
                   !.arrival = Append(exportLoading.loaded, i)]
    /\ UNCHANGED <<histVars, canvasSize, dragVars>>

(* the callback of canvas.toBlob: a blob is downloaded; without a blob the
   returned promise is rejected after the try block has been left *)
toBlobCallback ==
  \E job \in BagToSet(pendingBlobs), blob \in BOOLEAN :
    /\ pendingBlobs' = pendingBlobs (-) SetToBag({job})
    /\ lastEvt' = IF blob
                  THEN ExportEvt("blobReady", 0, 1, FALSE, job.zeroSize, FALSE)
                  ELSE ExportEvt("blobNull", 0, 0, FALSE, job.zeroSize, TRUE)
    /\ UNCHANGED <<histVars, canvasSize, dragVars, isExporting, exportLoading>>

(* ============================== claims ================================= *)
IsCommitEvt(e) ==
  e.op \in {"add", "move", "rotate", "resize", "removeButton", "removeKey"}

\* C1: every commit discards the snapshots after the cursor, appends the new
\* scene and moves the cursor to the last index; after it the displayed scene
\* is the committed one, canRedo is false and redo() changes nothing.
C1_CommitTruncatesAndAppends ==
  [][IsCommitEvt(lastEvt') =>
       /\ history' = Append(SubSeq(history, 1, historyIndex + 1), placedItems')
       /\ historyIndex' = Len(history') - 1
       /\ ~canRedo'
       /\ redo(H') = H']_vars

\* commit(A); commit(B); undo(); commit(C): the last commit discarded B
C1_Witness ==
  /\ IsCommitEvt(lastEvt)
  /\ lastEvt.cut = 1
  /\ Len(history) = 3
  /\ historyIndex = 2
  /\ placedItems = history[3]

\* C2: at cursor 0 (the initial state, or k commits followed by k undos) the
\* displayed scene contains zero items.
C2_EmptySceneAtCursorZero ==
  historyIndex = 0 => Len(placedItems) = 0

\* C3: 0 <= cursor < length(snapshots) and the displayed scene equals
\* snapshots[cursor], in every reachable state.
C3_DisplayedIsSnapshotAtCursor ==
  /\ 0 <= historyIndex
  /\ historyIndex < Len(history)
  /\ placedItems = history[historyIndex + 1]

\* C4: where canUndo is true, undo() immediately followed by redo() restores
\* the displayed scene, the cursor and the snapshot list.
C4_UndoRedoRoundTrip ==
  canUndo => redo(undo(H)) = H

\* a redo that moved the cursor has just undone an earlier undo
C4_Witness ==
  /\ lastEvt.op = "redo"
  /\ lastEvt.a = 1
  /\ canUndo
  /\ undo(H) # H
  /\ redo(undo(H)) = H

\* the items of a scene that a catalog drop created
RealItems(scene) == { i \in 1..Len(scene) : scene[i].id # Undefined }

\* C5: every item created by a catalog drop keeps 40 <= width == height <= 200
\* under every sequence of resize operations.
C5_SizeWithin40And200 ==
  \A i \in RealItems(placedItems) :
    /\ 40 <= placedItems[i].width
    /\ placedItems[i].width = placedItems[i].height
    /\ placedItems[i].width <= 200

\* C6: a rotate step of direction d leaves the item at
\* (rotation + 15 * d) mod 360, a value of [0, 360); with rotation 0 at
\* placement the stored rotation is (15 * sum of directions) mod 360.
C6_RotationIsSumMod360 ==
  [][lastEvt'.op = "rotate" =>
       \A i \in 1..Len(placedItems) :
         placedItems[i].id = lastEvt'.id =>
           /\ placedItems'[i].rotation =
                (placedItems[i].rotation + 15 * lastEvt'.a) % 360
           /\ placedItems'[i].rotation \in 0..359]_vars

\* the items an add or a move has just written: the appended item, or the
\* items whose id is the dragged id
Touched ==
  IF lastEvt.op = "add" THEN { Len(placedItems) }
  ELSE { i \in 1..Len(placedItems) : placedItems[i].id = lastEvt.id }

\* C7 as stated: the item added or moved by a commit has x in [0, W - width]
\* and y in [0, H - height] for the container size W x H of that commit.
C7_Original_InsideContainer ==
  lastEvt.op \in {"add", "move"} =>
    \A i \in Touched :
      /\ 0 <= placedItems[i].x
      /\ placedItems[i].x <= canvasSize.width - placedItems[i].width
      /\ 0 <= placedItems[i].y
      /\ placedItems[i].y <= canvasSize.height - placedItems[i].height

\* the item of the example: size 40 at (280,180)
C7_ExampleItem ==
  [id |-> PlacedId(0), itemId |-> <<"", 1>>, image |-> "ring.png",
   x |-> 280, y |-> 180, width |-> 40, height |-> 40, rotation |-> 0]

\* C7 amended: the item added or moved by a commit has x in
\* [0, max(0, W - width)] and y in [0, max(0, H - height)]; it lies inside the
\* container whenever the container is at least as large as the item; an item
\* at (280,180) of size 40 in a 300 x 200 container moved by (50,50) ends at
\* (260,160).
C7_ClampedIntoContainer ==
  /\ lastEvt.op \in {"add", "move"} =>
       \A i \in Touched :
         /\ 0 <= placedItems[i].x
         /\ placedItems[i].x <= Max(0, canvasSize.width - placedItems[i].width)
         /\ 0 <= placedItems[i].y
         /\ placedItems[i].y <= Max(0, canvasSize.height - placedItems[i].height)
  /\ LET moved == moveItems(<<C7_ExampleItem>>, PlacedId(0), [x |-> 50, y |-> 50],
                            [width |-> 300, height |-> 200])[1]
     IN moved.x = 260 /\ moved.y = 160

\* a move in a 300 x 200 container that the clamp stops at (260,160)
C7_Witness ==
  /\ lastEvt.op = "move"
  /\ canvasSize = [width |-> 300, height |-> 200]
  /\ \E i \in Touched :
       /\ history[historyIndex][i].x + lastEvt.a > 260
       /\ history[historyIndex][i].y + lastEvt.b > 160
       /\ placedItems[i].width = 40
       /\ placedItems[i].x = 260
       /\ placedItems[i].y = 160

Clamp(v, lo, hi) == Max(lo, Min(v, hi))

DistinctIds(scene) ==
  \A i, j \in 1..Len(scene) : i # j => scene[i].id # scene[j].id

\* C9: the items of the displayed scene and of every snapshot have pairwise
\* distinct ids.
C9_IdsUnique ==
  /\ DistinctIds(placedItems)
  /\ \A k \in 1..Len(history) : DistinctIds(history[k])

\* C10: rotate, resize, remove and a placed-item drag end that target an id
\* absent from the displayed scene commit nothing: the snapshot list and the
\* cursor (hence canUndo and canRedo) are unchanged.
C10_MissingTargetIsNoOp ==
  [][(/\ lastEvt'.op \in {"rotate", "resize", "removeButton", "removeKey", "move"}
      /\ lastEvt'.id \notin Ids(placedItems))
       => /\ history' = history
          /\ historyIndex' = historyIndex
          /\ canUndo' = canUndo
          /\ canRedo' = canRedo]_vars

\* ids an operation can be called with
TargetIds == { PlacedId(t) : t \in Times } \cup PanelIds \cup { Null }

\* C11: rotate, resize, move and remove called with an id absent from the
\* scene produce a scene equal to the input scene (same items, same order,
\* same field values); the scene displayed after a handler that targeted an id
\* absent from the scene it was called on is that scene.
C11_AbsentIdLeavesSceneEqual ==
  /\ \A id \in TargetIds \ Ids(placedItems) :
       /\ \A d \in Directions : handleRotate(placedItems, id, d) = placedItems
       /\ \A d \in { RESIZE_STEP, -RESIZE_STEP } :
            handleResize(placedItems, id, d) = placedItems
       /\ \A d \in Deltas : moveItems(placedItems, id, d, canvasSize) = placedItems
       /\ hookHandleRemoveItem(placedItems, id) = placedItems
  /\ (/\ lastEvt.op \in {"rotate", "resize", "removeButton", "removeKey", "move"}
      /\ lastEvt.id \notin Ids(history[historyIndex]))
       => placedItems = history[historyIndex]

\* Delete pressed while the selected id is no longer in a scene that has items
C11_Witness ==
  /\ lastEvt.op = "removeKey"
  /\ historyIndex > 0
  /\ lastEvt.id \notin Ids(history[historyIndex])
  /\ RealItems(history[historyIndex]) # {}
  /\ placedItems = history[historyIndex]

\* C12: a drag cancel leaves no active drag id and commits nothing: the
\* displayed scene, the snapshot list and the cursor are unchanged.
C12_CancelReturnsToIdle ==
  [][lastEvt'.op = "dragCancel" =>
       /\ activeId' = Null
       /\ UNCHANGED histVars]_vars

\* C13: the drag end of a catalog item that is released off the canvas drop
\* zone, or whose id matches no item of the catalog, commits nothing and leaves
\* the displayed scene, the history and the selection unchanged; when such a
\* drag end changes the history, a recognised catalog item was released over
\* the canvas and it is the one item added.
C13_UnrecognisedDropIsNoOp ==
  [][(/\ dndActive # Null
      /\ ~StartsWithPlaced(dndActive)
      /\ lastEvt'.op \in {"add", "dragEndNone"})
       => /\ (lastEvt'.over # "canvas-droppable" \/ FindSource(dndActive) = {})
               => UNCHANGED <<histVars, selectedItemId>>
          /\ ~(UNCHANGED histVars)
               => /\ lastEvt'.over = "canvas-droppable"
                  /\ FindSource(dndActive) # {}
                  /\ Len(placedItems') = Len(placedItems) + 1
                  /\ SubSeq(placedItems', 1, Len(placedItems)) = placedItems
                  /\ placedItems'[Len(placedItems')].itemId = dndActive]_vars

\* an id the catalog does not have was released over the canvas while an item
\* was selected
C13_Witness ==
  /\ lastEvt.op = "dragEndNone"
  /\ lastEvt.over = "canvas-droppable"
  /\ lastEvt.id \notin CatalogIds
  /\ selectedItemId \in Ids(placedItems)
  /\ activeId = Null

\* C14: the drag end of a placed item with delta (dx, dy) commits exactly one
\* snapshot, in which the item has x = clamp(x + dx, 0, W - width) and
\* y = clamp(y + dy, 0, H - height) and every other item is as before, whether
\* the release is over the canvas drop zone or not.
C14_MoveCommitsClampedPosition ==
  [][lastEvt'.op = "move" =>
       /\ history' = Append(SubSeq(history, 1, historyIndex + 1), placedItems')
       /\ historyIndex' = historyIndex + 1
       /\ Len(placedItems') = Len(placedItems)
       /\ \A i \in 1..Len(placedItems) :
            IF placedItems[i].id = lastEvt'.id
            THEN placedItems'[i] =
                   [placedItems[i] EXCEPT
                      !.x = Clamp(placedItems[i].x + lastEvt'.a, 0,
                                  canvasSize.width - placedItems[i].width),
                      !.y = Clamp(placedItems[i].y + lastEvt'.b, 0,
                                  canvasSize.height - placedItems[i].height)]
            ELSE placedItems'[i] = placedItems[i]]_vars

\* a placed item released off the canvas drop zone has moved
C14_Witness ==
  /\ lastEvt.op = "move"
  /\ lastEvt.over = "none"
  /\ \E i \in Touched :
       /\ history[historyIndex][i].id = lastEvt.id
       /\ placedItems[i].x # history[historyIndex][i].x
       /\ placedItems[i].x =
            Clamp(history[historyIndex][i].x + lastEvt.a, 0,
                  canvasSize.width - placedItems[i].width)

\* C15: at most one export is in flight at any time, and isExporting is true
\* from the start of an export until its download has been triggered or its
\* failure has been reported.
C15_SingleFlight ==
  /\ InFlight <= 1
  /\ InFlight > 0 => isExporting

\* C16: when the image of a placed item fails to load the export fails as a
\* whole: no placed item is drawn, nothing is handed to the encoder so no
\* download follows, exactly one error notification is shown and no new
\* export is started.
C16_LoadFailureFailsWholeExport ==
  [][lastEvt'.op = "imageFailed" =>
       /\ exportLoading.running
       /\ ~lastEvt'.drawn
       /\ lastEvt'.a = 1
       /\ lastEvt'.b = 0
       /\ ~lastEvt'.unhandled
       /\ pendingBlobs' = pendingBlobs
       /\ exportLoading' = NoJob
       /\ ~isExporting']_vars

\* the export of a scene with a dropped item has failed on an image
C16_Witness ==
  /\ lastEvt.op = "imageFailed"
  /\ lastEvt.a = 1
  /\ RealItems(placedItems) # {}
  /\ InFlight = 0
  /\ ~isExporting

\* C17: an export requested while the container width or height is 0 fails
\* with an error before anything is drawn or encoded, and never triggers a
\* download.
C17_ZeroSizeExportFails ==
  lastEvt.zeroSize =>
    /\ lastEvt.a = 1
    /\ lastEvt.b = 0
    /\ ~lastEvt.drawn

\* C18: when the encoder yields no blob, exactly one error notification is
\* shown, no download is triggered and no rejection is left unhandled.
C18_EncodeFailureIsCaught ==
  lastEvt.op = "blobNull" =>
    /\ lastEvt.a = 1
    /\ lastEvt.b = 0
    /\ ~lastEvt.unhandled

ExportOps ==
  { "exportIgnored", "exportRequest", "exportNoContext", "imageLoaded", "imagesLoaded",
    "imageFailed", "blobReady", "blobNull" }

\* C19: requesting, completing or failing an export never changes the
\* displayed scene, the snapshot list, the cursor or the selection.
C19_ExportLeavesEditorAlone ==
  [][(lastEvt'.op \in ExportOps \/ exportVars' # exportVars)
       => UNCHANGED <<histVars, selectedItemId>>]_vars

\* an export of a scene with a selected item has been downloaded
C19_Witness ==
  /\ lastEvt.op = "blobReady"
  /\ lastEvt.b = 1
  /\ selectedItemId \in Ids(placedItems)
  /\ Len(history) > 1

\* C20: the selection is none after the selected item has been removed
\* (button, or Delete/Backspace), after Escape and after a click on the canvas
\* background, with or without a drag under way; Escape and the background
\* click commit nothing.
C20_SelectionCleared ==
  [][/\ (lastEvt'.op \in {"removeButton", "removeKey"} /\ lastEvt'.id = selectedItemId)
          => selectedItemId' = Null
     /\ lastEvt'.op = "deselect"
          => /\ selectedItemId' = Null
             /\ UNCHANGED histVars]_vars

\* Escape pressed while a placed item, selected by its drag start, is dragged
C20_Witness ==
  /\ lastEvt.op = "deselect"
  /\ StartsWithPlaced(dndActive)
  /\ activeId = dndActive
  /\ selectedItemId = Null

\* C21: after a retake and a new capture the editor is in its initial state:
\* the displayed scene is empty, there is a single snapshot with cursor 0,
\* canUndo and canRedo are false, the selection is none, no drag is active, and
\* undo and redo reach no item or snapshot from before the retake.
C21_RetakeIsFullReset ==
  lastEvt.op = "retake" =>
    /\ placedItems = << >>
    /\ Len(history) = 1
    /\ historyIndex = 0
    /\ ~canUndo
    /\ ~canRedo
    /\ selectedItemId = Null
    /\ activeId = Null
    /\ dndActive = Null
    /\ undo(H) = H
    /\ redo(H) = H
    /\ \A k \in 1..Len(history) : RealItems(history[k]) = {}
    /\ history = << << EmptyArrayItem >> >>
    /\ canvasSize = [width |-> 0, height |-> 0]

\* a retake of a canvas that held three snapshots
C21_Witness ==
  /\ lastEvt.op = "retake"
  /\ lastEvt.a = 3
  /\ Len(history) = 1
  /\ placedItems = << >>

\* C22: undo at cursor 0 and redo at the last cursor change nothing; otherwise
\* they move the cursor by exactly one and display snapshots[cursor]; neither
\* adds, removes or alters a snapshot; canUndo = (cursor > 0) and
\* canRedo = (cursor < length - 1).
C22_UndoRedoMoveCursorByOne ==
  [][/\ lastEvt'.op = "undo" =>
          /\ history' = history
          /\ IF historyIndex = 0
             THEN UNCHANGED <<historyIndex, placedItems>>
             ELSE /\ historyIndex' = historyIndex - 1
                  /\ placedItems' = history[historyIndex' + 1]
     /\ lastEvt'.op = "redo" =>
          /\ history' = history
          /\ IF historyIndex = Len(history) - 1
             THEN UNCHANGED <<historyIndex, placedItems>>
             ELSE /\ historyIndex' = historyIndex + 1
                  /\ placedItems' = history[historyIndex' + 1]
     /\ canUndo' = (historyIndex' > 0)
     /\ canRedo' = (historyIndex' < Len(history') - 1)]_vars

\* an undo from the last of three snapshots: one step back, redo available
C22_Witness ==
  /\ lastEvt.op = "undo"
  /\ lastEvt.a = 1
  /\ Len(history) = 3
  /\ historyIndex = 1
  /\ placedItems = history[2]
  /\ canUndo
  /\ canRedo

IdSeq(scene) == [i \in 1..Len(scene) |-> scene[i].id]

\* scene without its i-th item, the others in their order
WithoutIndex(scene, i) ==
  [j \in 1..(Len(scene) - 1) |-> scene[IF j < i THEN j ELSE j + 1]]

\* C23: a catalog drop appends the new item last; rotate, resize and move of
\* an item of the displayed scene leave the sequence of ids unchanged and
\* change only that item's rotation, width/height, or x/y; remove deletes only
\* that item and keeps the order of the rest.
C23_OrderAndFrame ==
  /\ \A i \in RealItems(placedItems) :
       LET it == placedItems[i] IN
       /\ \A d \in Directions :
            LET r == handleRotate(placedItems, it.id, d) IN
            /\ IdSeq(r) = IdSeq(placedItems)
            /\ r = [placedItems EXCEPT ![i] = [it EXCEPT !.rotation = r[i].rotation]]
       /\ \A d \in { RESIZE_STEP, -RESIZE_STEP } :
            LET r == handleResize(placedItems, it.id, d) IN
            /\ IdSeq(r) = IdSeq(placedItems)
            /\ r = [placedItems EXCEPT
                      ![i] = [it EXCEPT !.width = r[i].width, !.height = r[i].height]]
       /\ \A d \in Deltas :
            LET r == moveItems(placedItems, it.id, d, canvasSize) IN
            /\ IdSeq(r) = IdSeq(placedItems)
            /\ r = [placedItems EXCEPT ![i] = [it EXCEPT !.x = r[i].x, !.y = r[i].y]]
       /\ hookHandleRemoveItem(placedItems, it.id) = WithoutIndex(placedItems, i)
  /\ (lastEvt.op = "add" /\ historyIndex >= 2) =>
       /\ Len(placedItems) = Len(history[historyIndex]) + 1
       /\ SubSeq(placedItems, 1, Len(placedItems) - 1) = history[historyIndex]
       /\ placedItems[Len(placedItems)].id = lastEvt.id

\* C24: during an export the placed items are drawn only once the image of
\* every item has loaded, and they are drawn in scene order whatever order
\* the loads completed in.
C24_DrawnInSceneOrderAfterAllLoads ==
  [][/\ lastEvt'.op = "exportRequest" => exportLoading'.items = placedItems
     /\ lastEvt'.op \in {"exportRequest", "imageLoaded"}
          => /\ ~lastEvt'.drawn
             /\ lastEvt'.surface = << >>
             /\ pendingBlobs' = pendingBlobs
     /\ lastEvt'.op = "imagesLoaded"
          => /\ lastEvt'.drawn
             /\ Len(lastEvt'.arrival) = Len(exportLoading.items)
             /\ Range(lastEvt'.arrival) = 1..Len(exportLoading.items)
             /\ lastEvt'.surface = exportLoading.items]_vars

\* two different items were drawn in scene order although the image of the
\* second loaded first
C24_Witness ==
  /\ lastEvt.op = "imagesLoaded"
  /\ lastEvt.arrival = <<2, 1>>
  /\ Len(lastEvt.surface) = 2
  /\ lastEvt.surface[1] # lastEvt.surface[2]
  /\ lastEvt.surface = placedItems

\* the drag end of a catalog item that the catalog has, over the canvas
RecognisedDropOverCanvas ==
  /\ dndActive \in CatalogIds
  /\ lastEvt'.op \in {"add", "dragEndNone"}
  /\ lastEvt'.over = "canvas-droppable"

\* one commit of the displayed scene plus one new item, which is selected
AddsAndSelects ==
  /\ lastEvt'.op = "add"
  /\ Len(placedItems') = Len(placedItems) + 1
  /\ SubSeq(placedItems', 1, Len(placedItems)) = placedItems
  /\ history' = Append(SubSeq(history, 1, historyIndex + 1), placedItems')
  /\ historyIndex' = historyIndex + 1
  /\ selectedItemId' = placedItems'[Len(placedItems')].id
  /\ selectedItemId' = lastEvt'.id

EndsIdle ==
  lastEvt'.op \in {"add", "move", "dragEndNone"} =>
    /\ activeId' = Null
    /\ dndActive' = Null

\* C25 as stated: the drag end of a recognised catalog item over the canvas
\* performs, in one step, exactly one commit of the displayed scene plus the
\* new item, selects the new item and leaves the controller idle; every drag
\* end leaves the controller idle.
C25_Original_DropAlwaysAdds ==
  [][/\ RecognisedDropOverCanvas => AddsAndSelects
     /\ EndsIdle]_vars

\* C25 amended: the same, provided the canvas element and the translated rect
\* of the drag overlay are there at the drag end; when one of them is missing
\* the drag end commits nothing and leaves the scene, the history and the
\* selection unchanged; every drag end leaves the controller idle.
C25_DropAddsWhenRectKnown ==
  [][/\ (RecognisedDropOverCanvas /\ (lastEvt'.op = "add" \/ lastEvt'.b = 1))
          => AddsAndSelects
     /\ (RecognisedDropOverCanvas /\ lastEvt'.op = "dragEndNone" /\ lastEvt'.b = 0)
          => UNCHANGED <<histVars, selectedItemId>>
     /\ EndsIdle]_vars

\* a second item has been dropped onto the canvas and is selected
C25_Witness ==
  /\ lastEvt.op = "add"
  /\ lastEvt.over = "canvas-droppable"
  /\ Len(placedItems) = 2
  /\ Len(history) = 3
  /\ history[3] = placedItems
  /\ selectedItemId = placedItems[2].id
  /\ activeId = Null
  /\ dndActive = Null

\* id strings a catalog can give its items: those of Catalog, and one that
\* begins with 'placed-'
CatalogIdStrings == CatalogIds \cup { <<"placed-", 9>> }

\* C26: the drag of an id is moving-placed exactly when the id is that of a
\* placed item and from-catalog exactly when it is that of a catalog item, for
\* every catalog id string; a moving-placed drag start selects the id, a
\* from-catalog drag start leaves the selection unchanged, neither commits.
C26_KindFollowsTheItem ==
  [][/\ \A id \in CatalogIdStrings : Kind(id) = "from-catalog"
     /\ \A id \in Ids(placedItems) \ {Undefined} : Kind(id) = "moving-placed"
     /\ lastEvt'.op = "dragStart" =>
          /\ UNCHANGED histVars
          /\ activeId' = lastEvt'.id
          /\ lastEvt'.id \in Ids(placedItems) => selectedItemId' = lastEvt'.id
          /\ lastEvt'.id \in CatalogIds => UNCHANGED selectedItemId]_vars

\* C27: the selection is none or the id of an item of the displayed scene.
C27_SelectionIsInScene ==
  selectedItemId = Null \/ selectedItemId \in Ids(placedItems)

\* C28: no two consecutive snapshots are equal: every commit changes the
\* displayed scene, an operation that leaves the scene as it is appends
\* nothing.
C28_NoEqualNeighbours ==
  \A k \in 1..(Len(history) - 1) : history[k] # history[k + 1]

Inside(item, size) ==
  /\ item.x >= 0
  /\ item.y >= 0
  /\ item.x + item.width <= size.width
  /\ item.y + item.height <= size.height

AllInside(scene, size) == \A i \in RealItems(scene) : Inside(scene[i], size)

\* C29: in a container of at least 200 x 200 that keeps its size, a scene
\* whose items lie fully inside the container (x >= 0, y >= 0,
\* x + width <= W, y + height <= H) is taken to such a scene again by every
\* catalog drop, move and resize.
C29_ItemsStayInside ==
  (/\ canvasSize.width >= 200
   /\ canvasSize.height >= 200
   /\ AllInside(placedItems, canvasSize))
    => /\ \A c \in Catalog, p \in DropPoints, t \in Times :
            AllInside(Append(placedItems, newItem(c, p, canvasSize, t)), canvasSize)
       /\ \A i \in RealItems(placedItems) :
            /\ \A d \in Deltas :
                 AllInside(moveItems(placedItems, placedItems[i].id, d, canvasSize),
                           canvasSize)
            /\ \A d \in { RESIZE_STEP, -RESIZE_STEP } :
                 AllInside(handleResize(placedItems, placedItems[i].id, d), canvasSize)

\* C30: when every image load succeeds or fails in the end and the encoder
\* calls back in the end, the busy flag does not stay true, and an export in
\* flight is followed by the end of an export: a download has been triggered
\* or an error has been reported.
ExportEnds == { "blobReady", "imageFailed", "exportNoContext" }

C30_EveryExportEnds ==
  /\ isExporting ~> ~isExporting
  /\ (InFlight > 0) ~> (lastEvt.op \in ExportEnds)

Next ==
  \/ Undo
  \/ Redo
  \/ UpdateSize
  \/ RotateButton
  \/ ResizeButton
  \/ RemoveButton
  \/ DeleteKey
  \/ Deselect
  \/ SelectItem
  \/ handleDragStart
  \/ handleDragEnd
  \/ DragCancel
  \/ handleRetake

Spec == Init /\ [][Next]_vars

\* the export, with the steps of the editor that build the scenes it exports
NextExport ==
  \/ UpdateSize
  \/ Deselect
  \/ handleDragStart
  \/ handleDragEnd
  \/ handleExport
  \/ ImageLoaded
  \/ ImagesLoaded
  \/ ImageLoadFailed
  \/ toBlobCallback

SpecExport == Init /\ [][NextExport]_vars

\* every image load succeeds or fails in the end; the encoder calls back in
\* the end
SpecExportFair ==
  /\ SpecExport
  /\ WF_vars(ImageLoaded \/ ImagesLoaded \/ ImageLoadFailed)
  /\ WF_vars(toBlobCallback)
====
